---- MODULE Spec2Model ----
(***************************************************************************)
(* Model of dpp/isa/avx512.h: the AVX-512 audio mixer kernels              *)
(* audio_mixer::collect_single_register and audio_mixer::combine_samples,  *)
(* with their helpers gather_values, store_values and                      *)
(* extract_int32_from_avx512.                                              *)
(*                                                                         *)
(* A binary32 value is a record [k, m, e]: k = "fin" stands for the real   *)
(* number m * 2^e (m = 0, e = 0 or m odd, |m| < 2^24), k = "inf" for the   *)
(* infinity of sign m and k = "nan" for a NaN.  The sign of a zero is not  *)
(* kept: no operation of the kernels distinguishes -0.0 from +0.0.         *)
(* Every operation rounds to 24 significant bits, ties to even (the        *)
(* default MXCSR rounding mode).  The sampled inputs keep every exponent   *)
(* inside the normal range, so gradual underflow never occurs.             *)
(***************************************************************************)
EXTENDS Integers, Sequences, FiniteSets, TLC

\* ------------------------------------------------------------------------
\* Bounds of the model
\* ------------------------------------------------------------------------

\* Calls one invoker makes in a sequential run.
MaxCalls == 3

\* Calls each of the two invokers makes in a concurrent run.
ConcCalls == 1

\* Elements every buffer holds beyond the lane_count elements of a block.
Slack == 1

\* ------------------------------------------------------------------------
\* Program constants
\* ------------------------------------------------------------------------

byte_blocks_per_register == 16

INT16_MIN == -32768

INT16_MAX == 32767

INT32_MAX == 2147483647

INT32_MIN == (-2147483647) - 1

\* Binary32: significand width and largest exponent of a finite value.
FloatMantBits == 24

FloatMaxExp == 127

Lanes == 0 .. (byte_blocks_per_register - 1)

BufLen == byte_blocks_per_register + Slack

BufIdx == 0 .. (BufLen - 1)

\* ------------------------------------------------------------------------
\* Binary32 arithmetic
\* ------------------------------------------------------------------------

RECURSIVE Pow2(_)
Pow2(n) == IF n <= 0 THEN 1 ELSE 2 * Pow2(n - 1)

RECURSIVE BitLen(_)
BitLen(n) == IF n <= 0 THEN 0 ELSE 1 + BitLen(n \div 2)

Abs(n) == IF n < 0 THEN -n ELSE n

NaN == [k |-> "nan", m |-> 0, e |-> 0]

Inf(s) == [k |-> "inf", m |-> s, e |-> 0]

FZero == [k |-> "fin", m |-> 0, e |-> 0]

RECURSIVE Canon(_, _)
Canon(m, e) ==
    IF m = 0 THEN FZero
    ELSE IF m % 2 = 0 THEN Canon(m \div 2, e + 1)
    ELSE IF e + BitLen(Abs(m)) - 1 > FloatMaxExp THEN Inf(IF m < 0 THEN -1 ELSE 1)
    ELSE [k |-> "fin", m |-> m, e |-> e]

\* The binary32 nearest to (m + f) * 2^e, where f = 0 when sticky is FALSE
\* and 0 < f < 1 when it is TRUE; ties go to the even significand.
RoundF(m, e, sticky) ==
    LET neg  == m < 0
        mag  == IF neg THEN (IF sticky THEN (-m) - 1 ELSE -m) ELSE m
        bl   == BitLen(mag)
        sh   == bl - FloatMantBits
        q    == mag \div Pow2(sh)
        r    == mag % Pow2(sh)
        half == Pow2(sh - 1)
        up   == \/ r > half
                \/ r = half /\ sticky
                \/ r = half /\ ~sticky /\ q % 2 = 1
        qq   == IF up THEN q + 1 ELSE q
    IN  IF sh <= 0
        THEN Canon(IF neg THEN -mag ELSE mag, e)
        ELSE Canon(IF neg THEN -qq ELSE qq, e + sh)

\* static_cast<float>(int32_t) and static_cast<float>(int16_t).
IntToFloat(n) ==
    IF n = INT32_MIN THEN [k |-> "fin", m |-> -1, e |-> 31]
    ELSE RoundF(n, 0, FALSE)

\* Exponent of the leading bit of a finite non-zero value, plus one.
TopExp(a) == a.e + BitLen(Abs(a.m))

Sgn(n) == IF n < 0 THEN -1 ELSE IF n > 0 THEN 1 ELSE 0

\* One lane of _mm512_mul_ps.
mm512_mul_ps(a, b) ==
    IF a.k = "nan" \/ b.k = "nan" THEN NaN
    ELSE IF a.k = "inf" \/ b.k = "inf"
         THEN IF a.m = 0 \/ b.m = 0 THEN NaN ELSE Inf(Sgn(a.m) * Sgn(b.m))
    ELSE RoundF(a.m * b.m, a.e + b.e, FALSE)

\* Sum of two finite non-zero values, hi the one with the larger e.  The
\* low bits of lo that fall below a 29 bit window under the leading bit of
\* hi are folded into a sticky bit, as a hardware adder does.
AddFinite(hi, lo) ==
    LET d     == hi.e - lo.e
        room  == 29 - BitLen(Abs(hi.m))
        k     == IF d > room THEN d - room ELSE 0
        kk    == IF k > 30 THEN 30 ELSE k
        lom   == lo.m \div Pow2(kk)
        stick == (lo.m % Pow2(kk)) # 0
    IN  RoundF(hi.m * Pow2(d - k) + lom, lo.e + k, stick)

\* One lane of _mm512_add_ps.
mm512_add_ps(a, b) ==
    IF a.k = "nan" \/ b.k = "nan" THEN NaN
    ELSE IF a.k = "inf" /\ b.k = "inf" THEN (IF a.m = b.m THEN a ELSE NaN)
    ELSE IF a.k = "inf" THEN a
    ELSE IF b.k = "inf" THEN b
    ELSE IF a.m = 0 THEN b
    ELSE IF b.m = 0 THEN a
    ELSE IF a.e >= b.e THEN AddFinite(a, b) ELSE AddFinite(b, a)

FNeg(a) == [a EXCEPT !.m = -a.m]

\* a < b for two values that are not NaN.
FLess(a, b) ==
    IF a.k = "inf" /\ b.k = "inf" THEN a.m < b.m
    ELSE mm512_add_ps(a, FNeg(b)).m < 0

\* One lane of _mm512_max_ps / _mm512_min_ps: the second operand is
\* returned when either operand is a NaN.
MaxPs(a, b) ==
    IF a.k = "nan" \/ b.k = "nan" THEN b
    ELSE IF FLess(b, a) THEN a ELSE b

MinPs(a, b) ==
    IF a.k = "nan" \/ b.k = "nan" THEN b
    ELSE IF FLess(a, b) THEN a ELSE b

\* One lane of _mm512_mask_max_ps(src, k, a, b) and _mm512_mask_min_ps.
mm512_mask_max_ps(src, k, a, b) == IF k THEN MaxPs(a, b) ELSE src

mm512_mask_min_ps(src, k, a, b) == IF k THEN MinPs(a, b) ELSE src

\* One lane of _mm512_cmp_ps_mask(a, b, _CMP_GE_OQ): ordered, so FALSE on NaN.
mm512_cmp_ps_mask_GE_OQ(a, b) ==
    a.k # "nan" /\ b.k # "nan" /\ ~FLess(a, b)

\* One lane of _mm512_cvtps_epi32: round to nearest, ties to even; a NaN,
\* an infinity or a value outside int32 gives the integer indefinite
\* 0x80000000.
mm512_cvtps_epi32(a) ==
    IF a.k # "fin" THEN INT32_MIN
    ELSE IF a.m = 0 THEN 0
    ELSE IF TopExp(a) > 31 THEN INT32_MIN
    ELSE IF a.e >= 0 THEN a.m * Pow2(a.e)
    ELSE IF -a.e > 26 THEN 0
    ELSE LET sh   == -a.e
             q    == a.m \div Pow2(sh)
             r    == a.m % Pow2(sh)
             half == Pow2(sh - 1)
         IN  IF r > half \/ (r = half /\ q % 2 # 0) THEN q + 1 ELSE q

\* _mm512_set_ps(e15, ..., e0): the first argument goes to lane 15, the last
\* one to lane 0.
mm512_setr_ps(args) == [lane \in Lanes |-> args[lane]]

mm512_set_ps(args) ==
    [lane \in Lanes |-> args[(byte_blocks_per_register - 1) - lane]]

\* The arguments 0.0f, 1.0f, ..., 15.0f of line 101, in source order.
RampArgs == [n \in Lanes |-> IntToFloat(n)]

\* static_cast<int16_t> and static_cast<int32_t> of an int32 lane.
CastUInt16(n) == n % 65536

CastInt16(n) ==
    LET r == n % 65536 IN IF r > INT16_MAX THEN r - 65536 ELSE r

CastInt32(n) == n

\* extract_int32_from_avx512: the register is stored to the low 16 elements
\* of the local result[32]; the high 16 stay uninitialised and are not read.
extract_int32_from_avx512(value, index) ==
    LET result == [j \in 0 .. 31 |-> IF j \in Lanes THEN value[j] ELSE 0]
    IN  result[index]

\* ------------------------------------------------------------------------
\* The kernels' register arithmetic
\* ------------------------------------------------------------------------

\* Lines 99-101: _mm512_add_ps(set1(current_gain),
\*                             _mm512_mul_ps(set1(increment), _mm512_set_ps(0, ..., 15))).
GainRamp(current_gain, increment) ==
    LET ramp == mm512_set_ps(RampArgs) IN
    [i \in Lanes |-> mm512_add_ps(current_gain, mm512_mul_ps(increment, ramp[i]))]

\* Lines 103-109: lower_limit, upper_limit, mask_ge and the two masked passes.
ClampLane(v) ==
    LET lower_limit == IntToFloat(INT16_MIN)
        upper_limit == IntToFloat(INT16_MAX)
        mask_ge     == mm512_cmp_ps_mask_GE_OQ(v, FZero)
        after_max   == mm512_mask_max_ps(v, mask_ge, v, lower_limit)
    IN  mm512_mask_min_ps(after_max, ~mask_ge, after_max, upper_limit)

\* Lines 98-111 of collect_single_register, from the gathered register to
\* the integer register handed to store_values.
CollectRegister(samples, current_gain, increment) ==
    LET gains == GainRamp(current_gain, increment) IN
    [i \in Lanes |-> mm512_cvtps_epi32(ClampLane(mm512_mul_ps(samples[i], gains[i])))]

\* Line 122 of combine_samples.
CombineRegisterSub(up, decoded) ==
    [i \in Lanes |-> mm512_cvtps_epi32(mm512_add_ps(up[i], FNeg(decoded[i])))]

CombineRegister(up, decoded) ==
    [i \in Lanes |-> mm512_cvtps_epi32(mm512_add_ps(up[i], decoded[i]))]

\* The loop conditions of gather_values (line 82) and store_values (line 69).
GatherLoopShort(x) == x < byte_blocks_per_register - 1

GatherLoopCond(x) == x < byte_blocks_per_register

StoreLoopShort(x) == x < byte_blocks_per_register - 1

StoreLoopCond(x) == x < byte_blocks_per_register

\* new_array of gather_values is an automatic variable: every invocation
\* has its own, in its own stack frame.
FrameShared(p) == 1

FrameOf(p) == p

\* float new_array[byte_blocks_per_register]{} : value-initialised to zeros.
ZeroArray == [i \in Lanes |-> FZero]

\* ------------------------------------------------------------------------
\* Sampled inputs
\* ------------------------------------------------------------------------

F(m, e) == [k |-> "fin", m |-> m, e |-> e]

ConstBlock(v) == [i \in Lanes |-> v]

BlockOf(seq) == [i \in Lanes |-> seq[i + 1]]

MixedWide ==
    BlockOf(<<1, 2, -6, 1000, 20000, -20000, 32767, -32768,
              40000, -40000, 16777216, 16777217, -16777217, 16777219,
              2147483647, 0>>)

MixedNarrow ==
    BlockOf(<<0, 1, -1, 50, -50, 100, 1000, 20000,
              -20000, 32767, -32768, 127, -128, 3, 12345, -12345>>)

\* What a caller does to a buffer before a call: leave it (Keep) or fill
\* its first lane_count elements with a block (Fill(block)).
Keep == <<>>

Fill(block) == <<block>>

\* The first call of a sequential run draws its arguments from these sets.
\* current_gain: 0, 3/4, 2, NaN, +infinity; increment: 0, 1.
Gains == {FZero, F(3, -2), F(1, 1), NaN, Inf(1)}

Increments == {FZero, F(1, 0)}

CollectWideLoads == {Fill(ConstBlock(1)), Fill(ConstBlock(20000)), Fill(MixedWide)}

CombineWideLoads ==
    {Fill(ConstBlock(0)), Fill(ConstBlock(100)), Fill(MixedWide), Fill(MixedNarrow)}

CombineNarrowLoads == {Fill(ConstBlock(0)), Fill(ConstBlock(50)), Fill(MixedNarrow)}

\* The calls of a concurrent run draw from these.
ConcWideLoads == {Fill(MixedWide)}

ConcNarrowLoads == {Fill(MixedNarrow)}

ConcGains == {F(1, 1)}

ConcIncrements == {F(1, 0)}

FitsInt16(block) == \A i \in Lanes : block[i] >= INT16_MIN /\ block[i] <= INT16_MAX

\* ------------------------------------------------------------------------
\* State
\* ------------------------------------------------------------------------

Procs == {1, 2}

VARIABLES
    wide,       \* wide[p]: the int32 buffer of invoker p (data_in / up_sampled_vector)
    narrow,     \* narrow[p]: the int16 buffer of invoker p (data_out / decoded_data)
    pc,         \* pc[p]: "idle", "gather", "compute", "store", "done"
    x,          \* x[p]: the loop variable of gather_values / store_values
    todo,       \* todo[p]: the buffers still to gather, the one in progress first
    new_array,  \* new_array[f]: gather_values' local array in stack frame f
    regF,       \* regF[p][b]: the float register gathered from buffer b
    regI,       \* regI[p]: the integer register handed to store_values
    call,       \* call[p]: kind, current_gain, increment of the running call
    pre,        \* pre[p]: both buffers as they were when the call began
    reads,      \* reads[p]: the <<buffer, index>> pairs the call has read
    writes,     \* writes[p][b][i]: how often the call has written b[i]
    first,      \* first[p]: <<>> or <<the arguments and result of p's first call>>
    fromCollect,\* fromCollect[p]: narrow[p] is as the last collect call left it
    budget,     \* budget[p]: calls p may still make
    ncalls      \* ncalls[p]: calls p has begun

vars == <<wide, narrow, pc, x, todo, new_array, regF, regI, call, pre, reads,
          writes, first, fromCollect, budget, ncalls>>

Buffers == {"wide", "narrow"}

NoWrites == [b \in Buffers |-> [i \in BufIdx |-> 0]]

LanesOf(buf) == [i \in Lanes |-> buf[i]]

Load(buf, l) ==
    IF l = Keep THEN buf
    ELSE [i \in BufIdx |-> IF i \in Lanes THEN l[1][i] ELSE buf[i]]

InitCommon ==
    /\ wide = [p \in Procs |-> [i \in BufIdx |-> 7000 + i]]
    /\ narrow = [p \in Procs |-> [i \in BufIdx |-> -(700 + i)]]
    /\ pc = [p \in Procs |-> "idle"]
    /\ x = [p \in Procs |-> 0]
    /\ todo = [p \in Procs |-> <<>>]
    /\ new_array = [f \in Procs |-> ZeroArray]
    /\ regF = [p \in Procs |-> [b \in Buffers |-> ZeroArray]]
    /\ regI = [p \in Procs |-> [i \in Lanes |-> 0]]
    /\ call = [p \in Procs |-> [kind |-> "none", gain |-> FZero, inc |-> FZero]]
    /\ pre = [p \in Procs |-> [wide |-> wide[p], narrow |-> narrow[p]]]
    /\ reads = [p \in Procs |-> {}]
    /\ writes = [p \in Procs |-> NoWrites]
    /\ first = [p \in Procs |-> <<>>]
    /\ fromCollect = [p \in Procs |-> FALSE]
    /\ ncalls = [p \in Procs |-> 0]

\* One invoker making MaxCalls calls one after the other.
Init ==
    /\ InitCommon
    /\ budget = [p \in Procs |-> IF p = 1 THEN MaxCalls ELSE 0]

\* Two invokers, each with its own pair of buffers, making ConcCalls calls.
InitConc ==
    /\ InitCommon
    /\ budget = [p \in Procs |-> ConcCalls]

Concurrent == \A p \in Procs : budget[p] + ncalls[p] > 0

\* ------------------------------------------------------------------------
\* Actions
\* ------------------------------------------------------------------------

\* Entry of gather_values: new_array is zeroed (line 81), x = 0 (line 82).
GatherEntry(p) ==
    /\ new_array' = [new_array EXCEPT ![FrameOf(p)] = ZeroArray]
    /\ x' = [x EXCEPT ![p] = 0]

\* The caller prepares the buffers and calls a kernel.
CanCall(p) == pc[p] \in {"idle", "done"} /\ budget[p] > 0

Begin(p, kind, wl, nl, g, inc, ord) ==
    /\ budget' = [budget EXCEPT ![p] = @ - 1]
    /\ ncalls' = [ncalls EXCEPT ![p] = @ + 1]
    /\ wide' = [wide EXCEPT ![p] = Load(@, wl)]
    /\ narrow' = [narrow EXCEPT ![p] = Load(@, nl)]
    /\ pre' = [pre EXCEPT ![p] = [wide |-> wide'[p], narrow |-> narrow'[p]]]
    /\ call' = [call EXCEPT ![p] = [kind |-> kind, gain |-> g, inc |-> inc]]
    /\ todo' = [todo EXCEPT ![p] = ord]
    /\ pc' = [pc EXCEPT ![p] = "gather"]
    /\ reads' = [reads EXCEPT ![p] = {}]
    /\ writes' = [writes EXCEPT ![p] = NoWrites]
    /\ fromCollect' = [fromCollect EXCEPT ![p] = @ /\ nl = Keep]
    /\ GatherEntry(p)
    /\ UNCHANGED <<regF, regI, first>>

\* The arguments a caller may choose.  In a concurrent run every call
\* draws from the Conc sets.  In a sequential run the first call draws from
\* the sets above; a later call repeats the blocks and gains of the first
\* call, swaps its two blocks, zeroes the wide buffer or keeps what the
\* buffers hold, so that a call is repeated after other calls.
IsFirstCall(p) == ncalls[p] = 0

FirstArgs(p) == first[p][1].args

WideLoads(p, kind) ==
    IF Concurrent THEN ConcWideLoads
    ELSE IF IsFirstCall(p)
    THEN IF kind = "collect" THEN CollectWideLoads ELSE CombineWideLoads
    ELSE IF kind = "collect" THEN {Keep, Fill(FirstArgs(p).wide)}
    ELSE {Fill(ConstBlock(0)), Fill(FirstArgs(p).wide), Fill(FirstArgs(p).narrow)}

NarrowLoads(p, kind) ==
    IF Concurrent THEN (IF kind = "collect" THEN {Keep} ELSE ConcNarrowLoads)
    ELSE IF IsFirstCall(p)
    THEN IF kind = "collect" THEN {Keep} ELSE CombineNarrowLoads
    ELSE IF kind = "collect" THEN {Keep, Fill(MixedNarrow)}
    ELSE {Keep, Fill(FirstArgs(p).narrow)}
         \cup (IF FitsInt16(FirstArgs(p).wide) THEN {Fill(FirstArgs(p).wide)} ELSE {})

GainChoices(p) ==
    IF Concurrent THEN ConcGains \X ConcIncrements
    ELSE IF IsFirstCall(p) THEN Gains \X Increments
    ELSE {<<FirstArgs(p).gain, FirstArgs(p).inc>>}

\* collect_single_register(wide[p], narrow[p], g, inc) is called.
CallCollect(p) ==
    /\ CanCall(p)
    /\ \E wl \in WideLoads(p, "collect"), nl \in NarrowLoads(p, "collect"),
       gi \in GainChoices(p) :
        Begin(p, "collect", wl, nl, gi[1], gi[2], <<"wide">>)

\* combine_samples(wide[p], narrow[p]) is called.  The two gather_values
\* calls of line 122 are arguments of one call: their order is unspecified.
CallCombine(p) ==
    /\ CanCall(p)
    /\ \E wl \in WideLoads(p, "combine"), nl \in NarrowLoads(p, "combine"),
       ord \in {<<"wide", "narrow">>, <<"narrow", "wide">>} :
        Begin(p, "combine", wl, nl, FZero, FZero, ord)

Mem(p, b) == IF b = "wide" THEN wide[p] ELSE narrow[p]

\* One iteration of the loop of gather_values (lines 82-84).
GatherStep(p) ==
    /\ pc[p] = "gather"
    /\ GatherLoopCond(x[p])
    /\ LET b == Head(todo[p]) IN
        /\ new_array' = [new_array EXCEPT ![FrameOf(p)][x[p]] = IntToFloat(Mem(p, b)[x[p]])]
        /\ reads' = [reads EXCEPT ![p] = @ \cup {<<b, x[p]>>}]
    /\ x' = [x EXCEPT ![p] = @ + 1]
    /\ UNCHANGED <<wide, narrow, pc, todo, regF, regI, call, pre, writes, first,
                   fromCollect, budget, ncalls>>

\* gather_values returns _mm512_load_ps(new_array) (line 85); the next
\* gather_values call begins, or the arithmetic follows.
GatherReturn(p) ==
    /\ pc[p] = "gather"
    /\ ~GatherLoopCond(x[p])
    /\ regF' = [regF EXCEPT ![p][Head(todo[p])] = new_array[FrameOf(p)]]
    /\ todo' = [todo EXCEPT ![p] = Tail(@)]
    /\ IF Tail(todo[p]) # <<>>
       THEN GatherEntry(p) /\ UNCHANGED pc
       ELSE /\ pc' = [pc EXCEPT ![p] = "compute"]
            /\ UNCHANGED <<new_array, x>>
    /\ UNCHANGED <<wide, narrow, regI, call, pre, reads, writes, first,
                   fromCollect, budget, ncalls>>

\* The register arithmetic of the kernel; store_values is entered.
Compute(p) ==
    /\ pc[p] = "compute"
    /\ regI' = [regI EXCEPT ![p] =
                  IF call[p].kind = "collect"
                  THEN CollectRegister(regF[p]["wide"], call[p].gain, call[p].inc)
                  ELSE CombineRegister(regF[p]["wide"], regF[p]["narrow"])]
    /\ pc' = [pc EXCEPT ![p] = "store"]
    /\ x' = [x EXCEPT ![p] = 0]
    /\ UNCHANGED <<wide, narrow, todo, new_array, regF, call, pre, reads, writes,
                   first, fromCollect, budget, ncalls>>

\* One iteration of the loop of store_values (lines 69-71).
StoreStep(p) ==
    /\ pc[p] = "store"
    /\ StoreLoopCond(x[p])
    /\ LET v == extract_int32_from_avx512(regI[p], x[p]) IN
        IF call[p].kind = "collect"
        THEN /\ narrow' = [narrow EXCEPT ![p][x[p]] = CastInt16(v)]
             /\ writes' = [writes EXCEPT ![p]["narrow"][x[p]] = @ + 1]
             /\ UNCHANGED wide
        ELSE /\ wide' = [wide EXCEPT ![p][x[p]] = CastInt32(v)]
             /\ writes' = [writes EXCEPT ![p]["wide"][x[p]] = @ + 1]
             /\ UNCHANGED narrow
    /\ x' = [x EXCEPT ![p] = @ + 1]
    /\ UNCHANGED <<pc, todo, new_array, regF, regI, call, pre, reads, first,
                   fromCollect, budget, ncalls>>

\* The arguments of the running call and the block it has produced.
Args(p) ==
    IF call[p].kind = "collect"
    THEN [kind |-> "collect", wide |-> LanesOf(pre[p].wide),
          narrow |-> ConstBlock(0), gain |-> call[p].gain, inc |-> call[p].inc]
    ELSE [kind |-> "combine", wide |-> LanesOf(pre[p].wide),
          narrow |-> LanesOf(pre[p].narrow), gain |-> FZero, inc |-> FZero]

Out(p) ==
    IF call[p].kind = "collect" THEN LanesOf(narrow[p]) ELSE LanesOf(wide[p])

\* The kernel returns to its caller.
Return(p) ==
    /\ pc[p] = "store"
    /\ ~StoreLoopCond(x[p])
    /\ pc' = [pc EXCEPT ![p] = "done"]
    /\ first' = [first EXCEPT ![p] =
                   IF @ = <<>> THEN <<[args |-> Args(p), out |-> Out(p)]>> ELSE @]
    /\ fromCollect' = [fromCollect EXCEPT ![p] = (call[p].kind = "collect") \/ @]
    /\ UNCHANGED <<wide, narrow, x, todo, new_array, regF, regI, call, pre, reads,
                   writes, budget, ncalls>>

Next ==
    \E p \in Procs :
        \/ CallCollect(p)
        \/ CallCombine(p)
        \/ GatherStep(p)
        \/ GatherReturn(p)
        \/ Compute(p)
        \/ StoreStep(p)
        \/ Return(p)

Spec == Init /\ [][Next]_vars

SpecConc == InitConc /\ [][Next]_vars

\* ------------------------------------------------------------------------
\* Properties
\* ------------------------------------------------------------------------

Done(p) == pc[p] = "done"

IsCollect(p) == call[p].kind = "collect"

IsCombine(p) == call[p].kind = "combine"

FiniteGains(p) == call[p].gain.k = "fin" /\ call[p].inc.k = "fin"

\* A sampled gain in quarters (every sampled finite gain is a multiple of 1/4).
Quarters(g) == g.m * Pow2(g.e + 2)

\* The real number g_i = current_gain + increment * (lane_count - 1 - i),
\* in quarters.
ExactGainQ(p, i) ==
    Quarters(call[p].gain) + Quarters(call[p].inc) * ((byte_blocks_per_register - 1) - i)

\* The real product data_in[i] * g_i in quarters; a product far outside
\* int16 is cut to +-2^20 quarters so that it is computed without overflow.
ExactProductQ(p, i) ==
    LET d == pre[p].wide[i]
        g == ExactGainQ(p, i)
    IN  IF d = 0 \/ g = 0 THEN 0
        ELSE IF d > 131072 \/ d < -131072 THEN Sgn(d) * Sgn(g) * 1048576
        ELSE d * g

\* q / 4 rounded to the nearest integer, ties to even.
RoundQuarters(q) ==
    LET fl == q \div 4
        r  == q % 4
    IN  IF r < 2 THEN fl
        ELSE IF r > 2 THEN fl + 1
        ELSE IF fl % 2 = 0 THEN fl ELSE fl + 1

ProductInRange(p, i) ==
    ExactProductQ(p, i) >= 4 * INT16_MIN /\ ExactProductQ(p, i) <= 4 * INT16_MAX

\* C1: after collect_single_register, a lane whose product data_in[i] * g_i
\* is above 32767 holds 32767 and a lane whose product is below -32768 holds
\* -32768 (a two-sided saturating clamp, never a wrapped value).
C1_SaturatingClamp ==
    \A p \in Procs :
        (Done(p) /\ IsCollect(p) /\ FiniteGains(p)) =>
            \A i \in Lanes :
                /\ ExactProductQ(p, i) > 4 * INT16_MAX => narrow[p][i] = INT16_MAX
                /\ ExactProductQ(p, i) < 4 * INT16_MIN => narrow[p][i] = INT16_MIN

\* C2: collect_single_register multiplies lane i by
\* g_i = current_gain + increment * (15 - i): every lane whose product lies
\* inside [-32768, 32767] holds round(data_in[i] * g_i) afterwards.
C2_RampGainRounded ==
    \A p \in Procs :
        (Done(p) /\ IsCollect(p) /\ FiniteGains(p)) =>
            \A i \in Lanes :
                ProductInRange(p, i) =>
                    narrow[p][i] = RoundQuarters(ExactProductQ(p, i))

\* Witness of C2: all inputs 1, current_gain = 0, increment = 1 give
\* data_out[0] = 15 and data_out[15] = 0.
C2_Witness ==
    \E p \in Procs :
        /\ Done(p) /\ IsCollect(p)
        /\ call[p].gain = FZero /\ call[p].inc = F(1, 0)
        /\ LanesOf(pre[p].wide) = ConstBlock(1)
        /\ narrow[p][0] = 15
        /\ narrow[p][byte_blocks_per_register - 1] = 0

\* C3: every element collect_single_register writes to data_out lies in
\* [-32768, 32767], whatever the inputs and the gains (NaN and infinity
\* included).
C3_OutputInInt16 ==
    \A p \in Procs :
        IsCollect(p) =>
            \A i \in BufIdx :
                writes[p]["narrow"][i] > 0 =>
                    (narrow[p][i] >= INT16_MIN /\ narrow[p][i] <= INT16_MAX)

\* Witness of C3: a finished call one of whose products is outside int16.
C3_Witness ==
    \E p \in Procs :
        /\ Done(p) /\ IsCollect(p) /\ FiniteGains(p)
        /\ \E i \in Lanes : ~ProductInRange(p, i) /\ writes[p]["narrow"][i] = 1
        /\ \E i \in Lanes : call[p].gain = F(1, 1) /\ narrow[p][i] # 0

SumFitsInt32(a, b) ==
    IF b >= 0 THEN a <= INT32_MAX - b ELSE a >= INT32_MIN - b

\* C4: after combine_samples, up[i] = (up[i] before the call) + decoded[i]
\* for every lane whose sum fits in int32.
C4_CombineIsSum ==
    \A p \in Procs :
        (Done(p) /\ IsCombine(p)) =>
            \A i \in Lanes :
                SumFitsInt32(pre[p].wide[i], pre[p].narrow[i]) =>
                    wide[p][i] = pre[p].wide[i] + pre[p].narrow[i]

\* C5: zero is an identity of combine_samples: with decoded_data all zeros
\* up_sampled_vector keeps its values, with up_sampled_vector all zeros it
\* ends as decoded_data.
C5_ZeroIdentity ==
    \A p \in Procs :
        (Done(p) /\ IsCombine(p)) =>
            /\ LanesOf(pre[p].narrow) = ConstBlock(0) =>
                   LanesOf(wide[p]) = LanesOf(pre[p].wide)
            /\ LanesOf(pre[p].wide) = ConstBlock(0) =>
                   LanesOf(wide[p]) = LanesOf(pre[p].narrow)

InBuf(p) == IF IsCollect(p) THEN "wide" ELSE "narrow"

OutBuf(p) == IF IsCollect(p) THEN "narrow" ELSE "wide"

\* C6: a kernel never writes its input-only buffer (data_in, decoded_data),
\* reads and writes no index >= lane_count, and has written each of the 16
\* indices of its output exactly once when it returns.
C6_Frame ==
    \A p \in Procs :
        (IsCollect(p) \/ IsCombine(p)) =>
            /\ \A r \in reads[p] : r[2] \in Lanes
            /\ \A b \in Buffers : \A i \in BufIdx \ Lanes :
                   writes[p][b][i] = 0 /\ Mem(p, b)[i] = pre[p][b][i]
            /\ \A i \in BufIdx : writes[p][InBuf(p)][i] = 0
            /\ Mem(p, InBuf(p)) = pre[p][InBuf(p)]
            /\ \A i \in Lanes : writes[p][OutBuf(p)][i] <= 1
            /\ Done(p) => \A i \in Lanes : writes[p][OutBuf(p)][i] = 1

\* Witness of C6: both kernels have returned, one after the other, and the
\* later one has changed its output.
C6_Witness ==
    \E p \in Procs :
        /\ Done(p) /\ ncalls[p] = 2 /\ IsCombine(p)
        /\ first[p][1].args.kind = "collect"
        /\ \A i \in Lanes : writes[p]["wide"][i] = 1
        /\ LanesOf(wide[p]) # LanesOf(pre[p].wide)

\* The result of a kernel that runs from entry to return with nothing else
\* running: gather_values, the register arithmetic, store_values.
GatherAlone(block) == [i \in Lanes |-> IntToFloat(block[i])]

CollectAlone(data_in, current_gain, increment) ==
    LET reg == CollectRegister(GatherAlone(data_in), current_gain, increment) IN
    [i \in Lanes |-> CastInt16(extract_int32_from_avx512(reg, i))]

CombineAlone(up, decoded) ==
    LET reg == CombineRegister(GatherAlone(up), GatherAlone(decoded)) IN
    [i \in Lanes |-> CastInt32(extract_int32_from_avx512(reg, i))]

AloneResult(a) ==
    IF a.kind = "collect" THEN CollectAlone(a.wide, a.gain, a.inc)
    ELSE CombineAlone(a.wide, a.narrow)

\* C7: two invocations running concurrently on disjoint buffers: under
\* every interleaving of their per-lane reads and writes, each invocation's
\* output ends as when that invocation runs alone (and the lane it has just
\* stored already holds that value).
C7_Independent ==
    \A p \in Procs :
        LET alone == AloneResult(Args(p)) IN
        /\ Done(p) => Out(p) = alone
        /\ (pc[p] = "store" /\ x[p] > 0) => Out(p)[x[p] - 1] = alone[x[p] - 1]

\* Witness of C7: a collect_single_register and a combine_samples call are
\* both running, each has stored its last lane and neither has returned,
\* and each output is as when the call runs alone.
C7_Witness ==
    /\ \A p \in Procs :
           /\ pc[p] = "store" /\ ~StoreLoopCond(x[p])
           /\ Out(p) = AloneResult(Args(p))
    /\ \E p, q \in Procs : IsCollect(p) /\ IsCombine(q)

\* C8: a call made after earlier calls writes the same block as the same
\* call (same kernel, same argument contents) made first.
C8_Stateless ==
    \A p \in Procs :
        (Done(p) /\ ncalls[p] >= 2 /\ Args(p) = FirstArgs(p)) =>
            Out(p) = first[p][1].out

\* Witness of C8: a collect_single_register call with a ramp has been
\* repeated with the arguments of the first call.
C8_Witness ==
    \E p \in Procs :
        /\ Done(p) /\ ncalls[p] >= 2 /\ IsCollect(p)
        /\ Args(p) = FirstArgs(p)
        /\ call[p].inc = F(1, 0) /\ call[p].gain = F(3, -2)
        /\ Out(p) # ConstBlock(0)

\* C9: combine_samples with up_sampled_vector all zeros and decoded_data the
\* block collect_single_register wrote leaves up_sampled_vector equal to
\* that block, and the block unchanged.
C9_RoundTrip ==
    \A p \in Procs :
        (/\ Done(p) /\ IsCombine(p) /\ fromCollect[p]
         /\ LanesOf(pre[p].wide) = ConstBlock(0)) =>
            /\ LanesOf(wide[p]) = LanesOf(pre[p].narrow)
            /\ narrow[p] = pre[p].narrow

\* Witness of C9: the round trip of a block with a non-zero last lane.
C9_Witness ==
    \E p \in Procs :
        /\ Done(p) /\ IsCombine(p) /\ fromCollect[p]
        /\ LanesOf(pre[p].wide) = ConstBlock(0)
        /\ first[p][1].args.kind = "collect"
        /\ pre[p].narrow[byte_blocks_per_register - 1] # 0
        /\ \E i \in Lanes : pre[p].narrow[i] < 0

\* C10: combine_samples is commutative in value: for blocks a and b of
\* int16 values, up = widen(a), decoded = b and up = widen(b), decoded = a
\* leave the same sums.
C10_Commutative ==
    \A p \in Procs :
        (/\ Done(p) /\ IsCombine(p) /\ ncalls[p] >= 2
         /\ FirstArgs(p).kind = "combine"
         /\ Args(p).wide = FirstArgs(p).narrow
         /\ Args(p).narrow = FirstArgs(p).wide) =>
            Out(p) = first[p][1].out

\* Witness of C10: the swapped call of two different blocks.
C10_Witness ==
    \E p \in Procs :
        /\ Done(p) /\ IsCombine(p) /\ ncalls[p] >= 2
        /\ FirstArgs(p).kind = "combine"
        /\ Args(p).wide = FirstArgs(p).narrow
        /\ Args(p).narrow = FirstArgs(p).wide
        /\ Args(p).wide # Args(p).narrow
        /\ Args(p).narrow # ConstBlock(0) /\ Args(p).wide # ConstBlock(0)
====
